---- MODULE Spec2Model ----
(***************************************************************************)
(* Training-trigger manager and federated aggregator of the FedHealth      *)
(* backend (backend/api/ml_utils.py, backend/api/views.py), modelled at    *)
(* the granularity of single document-store reads and writes.  Every       *)
(* request (a patient submission, an admin aggregation request) runs as a  *)
(* process whose position is pc[p] and whose Python locals are loc[p].     *)
(***************************************************************************)
EXTENDS Integers, Sequences, FiniteSets, Bags, TLC

\* ---------------------------------------------------------------- constants

PATIENT_THRESHOLD == 20

TIME_THRESHOLD == 24

MIN_PHCS == 3

MIN_PATIENTS_ADMIN == 20

MIN_SAMPLES == 10

DRIFT_THRESHOLD == 10

DRIFT_HIGH == 20

\* ------------------------------------------------------------------- bounds

\* times the clock can advance
MaxTicks == 1

\* requests started over a behaviour
MaxOps == 2

\* patient submissions of a burst at one site
MaxBurst == 3

\* patient submissions handled one after another
MaxSerial == 3

\* ------------------------------------------------------------------- sites

\* city_risk_calculator.PHC_CITY_MAPPING: the sites of the topology
PHC_CITY_MAPPING ==
    [ PHC_1 |-> "Pollachi", PHC_2 |-> "Pollachi", PHC_3 |-> "Thondamuthur",
      PHC_4 |-> "Thondamuthur", PHC_5 |-> "Kinathukadavu" ]

Sites == DOMAIN PHC_CITY_MAPPING

\* f'PHC_{phc_num}' for phc_num in range(1, 5)
PhcRange == << "PHC_1", "PHC_2", "PHC_3", "PHC_4" >>

PhcRangeSet == { PhcRange[i] : i \in 1..Len(PhcRange) }

Procs == { 1, 2 }

None == -1

VARIABLES
    now,           \* datetime.utcnow(), in hours
    patients,      \* Patient documents per site (count)
    meta,          \* TrainingMetadata documents, one per site
    localModels,   \* LocalModel collection: per site, in trained_at order
    globalModels,  \* GlobalModel collection, in insertion order
    broadcasts,    \* ModelBroadcast collection
    alerts,        \* Alert collection, as a bag of documents
    riskScores,    \* RiskScore collection, in insertion order
    pc,            \* position of each request
    loc,           \* locals of each request
    ops            \* requests started so far

vars ==
    << now, patients, meta, localModels, globalModels, broadcasts, alerts, riskScores,
       pc, loc, ops >>

store == << patients, meta, localModels, globalModels, broadcasts, alerts, riskScores >>

\* ------------------------------------------------------------------ helpers

NoMeta == [ exists |-> FALSE, count |-> 0, last |-> None, lock |-> FALSE ]

\* TrainingMetadata(phc_id=...) with the field defaults of models.py
NewMeta(count) == [ exists |-> TRUE, count |-> count, last |-> None, lock |-> FALSE ]

NoCollected == [ s \in PhcRangeSet |-> 0 ]

\* no evaluation: the split sizes and the correct predictions on each part
NoSplit == [ n_train |-> 0, train_correct |-> 0, n_test |-> 0, test_correct |-> 0 ]

\* the metrics of a result that carries an error
NoMetrics == [ test_accuracy |-> 0, train_accuracy |-> 0, num_samples |-> 0 ]

\* no patients: the clinical counts over the records of a patients query
NoData == [ n |-> 0, fever |-> 0, keyword |-> 0, wbc |-> 0 ]

\* no result of calculate_composite_risk_score
NoRisk == [ risk_score |-> 0, severity |-> "-", reason |-> "-", alert_created |-> FALSE ]

\* no patients in the window: how many records, how many of them with
\* severity_level 'High', how many with a disease_label other than 'Healthy'
NoCohort == [ n |-> 0, high |-> 0, disease |-> 0 ]

\* no result of a risk hierarchy calculation
NoHier ==
    [ score |-> 0, total |-> 0, has_total |-> FALSE, note |-> "-", error |-> "-" ]

\* no arguments of train_local_model
NoArgs == [ n |-> 0, ny |-> 0, bad |-> FALSE, features |-> {}, classes |-> 0 ]

IdleLoc ==
    [ op       |-> "idle",     \* which entry point runs
      phc      |-> "-",        \* phc_id argument
      reason   |-> "-",        \* trigger_reason
      md       |-> NoMeta,     \* metadata document as last read
      setLock  |-> FALSE,      \* this call wrote training_in_progress = True
      ver      |-> 0,          \* next_version
      i        |-> 0,          \* index of the loop inside aggregate_models
      j        |-> 0,          \* index of the loop of AggregateModelsView.post
      pend     |-> {},         \* phc_ids of should_trigger_global_aggregation
      areason  |-> "-",        \* reason of should_trigger_global_aggregation
      auto     |-> FALSE,      \* automatic argument of aggregate_models
      col      |-> NoCollected,\* phc_models: site -> id of the collected model
      colAgg   |-> {},         \* sites whose collected model was aggregated
      trained  |-> 0,          \* id of the LocalModel this call stored
      created  |-> 0,          \* GlobalModel version this call created
      ares     |-> "-",        \* return value of aggregate_models
      aexc     |-> "-",        \* exception caught inside aggregate_models
      peers    |-> {},         \* versions created by overlapping aggregate_models calls
      tres     |-> "-",        \* result['error'] of train_federated_model
      ran      |-> {},         \* analytics train_federated_model has invoked
      split    |-> NoSplit,    \* train/test split and predictions of this training
      metrics  |-> NoMetrics,  \* eval_result['metrics']
      racc     |-> 0,          \* result['accuracy'] of train_federated_model
      latest   |-> 0,          \* id of `latest` of detect_model_drift
      dres     |-> "-",        \* what detect_model_drift returned
      data     |-> NoData,     \* patients of calculate_composite_risk_score
      rres     |-> NoRisk,     \* what calculate_composite_risk_score returned
      scope    |-> << "-", "-" >>, \* level and id of a risk hierarchy calculation
      cohort   |-> [ s \in Sites |-> NoCohort ], \* in-window patients per site
      order    |-> << >>,      \* iteration order of list(set(...)) over the cities
      hres     |-> NoHier,     \* what the risk hierarchy calculation returned
      same     |-> FALSE,      \* history: the scope had a document of the same patients
      args     |-> NoArgs,     \* X, y, feature_columns of train_local_model
      result   |-> "-" ]       \* what the entry point returned

Max(S) == CHOOSE x \in S : \A y \in S : y <= x

\* LocalModel.objects.filter(phc_id=phc): positions in the site's sequence
Ids(phc) == 1..Len(localModels[phc])

\* generate_local_version_string: f"local_{phc_id}_v{version_number}"
generate_local_version_string(phc, v) == << "local", phc, v >>

\* generate_global_version_string: f"global_v{version_number}"
generate_global_version_string(v) == << "global", v >>

\* LocalModel.objects.filter(phc_id=phc_id).order_by('-version').first()
LatestVersion(phc) ==
    IF Ids(phc) = {} THEN 0 ELSE Max({ localModels[phc][k].version : k \in Ids(phc) })

\* unique=True on LocalModel.version_string
LocalVersionStringFreeNoIndex(vs) == TRUE

LocalVersionStringFree(vs) ==
    \A s \in Sites : \A k \in Ids(s) : localModels[s][k].version_string # vs

\* unique=True on GlobalModel.version and GlobalModel.version_string
GlobalVersionFreeNoIndex(v) == TRUE

GlobalVersionFree(v) ==
    \A k \in 1..Len(globalModels) : globalModels[k].version # v

\* GlobalModel.objects.order_by('-version').first()
LatestGlobalVersion ==
    IF globalModels = << >> THEN 0
    ELSE Max({ globalModels[k].version : k \in 1..Len(globalModels) })

\* requests are interchangeable: the next one runs as the first free process
FirstFree(p) == \A q \in Procs : pc[q] = "idle" => ~(q < p)

Set(p, r) == loc' = [ loc EXCEPT ![p] = r ]

Goto(p, l) == pc' = [ pc EXCEPT ![p] = l ]

Step(p, l, r) == Goto(p, l) /\ Set(p, r)

\* the entry point returns res to its caller; of the locals only the
\* outcome of the call is kept
Return(p, r, res) ==
    Step(p, "done", [ IdleLoc EXCEPT !.op = r.op, !.phc = r.phc, !.setLock = r.setLock,
                                     !.trained = r.trained, !.created = r.created,
                                     !.ares = r.ares, !.aexc = r.aexc, !.tres = r.tres,
                                     !.ran = r.ran, !.args = r.args, !.racc = r.racc,
                                     !.dres = r.dres, !.data = r.data, !.rres = r.rres,
                                     !.scope = r.scope, !.cohort = r.cohort,
                                     !.hres = r.hres, !.same = r.same,
                                     !.result = res ])

\* ---------------------------------------------------------------- initially

\* sites that already completed one training (version 1, not yet aggregated)
InitTrained == { { "PHC_2", "PHC_3" }, { "PHC_2", "PHC_5" } }

\* sites one patient short of the patient threshold
InitNearThreshold == { "PHC_1", "PHC_2" }

\* round(num / den, 4) of a ratio given in units of 0.0001: to the nearest
\* unit, a tie to the even one
RoundDiv(num, den) ==
    LET q == num \div den
        r == num % den
    IN  IF 2 * r > den \/ (2 * r = den /\ q % 2 = 1) THEN q + 1 ELSE q

\* round(float(accuracy_score(y, y_pred)), 4), in units of 0.0001
Round4(correct, n) == RoundDiv(10000 * correct, n)

\* train_test_split(test_size=0.3): the test part is ceil(0.3 * n)
TestSize(n) == (3 * n + 9) \div 10

\* test predictions a fitted model can get wrong
Misses == { 0, 2, 5 }

\* the split of n samples and the predictions of the fitted model: the
\* training part is reproduced, `miss` test samples are predicted wrongly
Split(n, miss) ==
    [ n_train |-> n - TestSize(n), train_correct |-> n - TestSize(n),
      n_test |-> TestSize(n), test_correct |-> TestSize(n) - miss ]

\* evaluate_model: the metrics dictionary
evaluate_model(o) ==
    [ test_accuracy  |-> Round4(o.test_correct, o.n_test),
      train_accuracy |-> Round4(o.train_correct, o.n_train),
      num_samples    |-> o.n_test + o.n_train ]

\* the metric train_federated_model stores and returns as `accuracy`
PrimaryAccuracyTrain(m) == m.train_accuracy

PrimaryAccuracy(m) == m.test_accuracy

\* the LocalModel document train_federated_model creates
NewLocalModel(phc, v, o) ==
    LET m == evaluate_model(o)
    IN  [ phc_id |-> phc, version |-> v,
          version_string |-> generate_local_version_string(phc, v),
          accuracy |-> PrimaryAccuracy(m),
          sample_count |-> m.num_samples,
          weights |-> [ train_accuracy |-> m.train_accuracy ],
          aggregated |-> FALSE, aggregated_in_version |-> None,
          \* history: the evaluation the document was created from
          split |-> o ]

InitModels(T) ==
    [ s \in Sites |->
        IF s \in T THEN << NewLocalModel(s, 1, Split(PATIENT_THRESHOLD, 0)) >> ELSE << >> ]

Init ==
    /\ now = 0
    /\ \E T \in InitTrained :
        /\ patients = [ s \in Sites |->
                          (IF s \in T THEN PATIENT_THRESHOLD ELSE 0)
                          + (IF s \in InitNearThreshold THEN PATIENT_THRESHOLD - 1 ELSE 0) ]
        /\ meta = [ s \in Sites |->
                      IF s \notin T \cup InitNearThreshold THEN NoMeta
                      ELSE [ exists |-> TRUE,
                             count  |-> IF s \in InitNearThreshold
                                        THEN PATIENT_THRESHOLD - 1 ELSE 0,
                             last   |-> IF s \in T THEN 0 ELSE None,
                             lock   |-> FALSE ] ]
        /\ localModels = InitModels(T)
    /\ globalModels = << >>
    /\ broadcasts = {}
    /\ alerts = EmptyBag
    /\ riskScores = << >>
    /\ pc = [ p \in Procs |-> "idle" ]
    /\ loc = [ p \in Procs |-> IdleLoc ]
    /\ ops = 0

\* -------------------------------------------------------------------- clock

\* datetime.utcnow() advances, in steps of the time threshold
Tick ==
    /\ now + TIME_THRESHOLD <= MaxTicks * TIME_THRESHOLD
    /\ now' = now + TIME_THRESHOLD
    /\ UNCHANGED << store, pc, loc, ops >>

\* ------------------------------------------------- training trigger manager

\* views.py: Patient.objects.create(...) followed by handle_patient_creation
StartHandler(p, s) ==
    /\ pc[p] = "idle"
    /\ FirstFree(p)
    /\ ops < MaxOps
    /\ ops' = ops + 1
    /\ patients' = [ patients EXCEPT ![s] = @ + 1 ]
    /\ Step(p, "inc_read", [ IdleLoc EXCEPT !.op = "handler", !.phc = s ])
    /\ UNCHANGED << now, meta, localModels, globalModels, broadcasts, alerts, riskScores >>

\* increment_patient_count: TrainingMetadata.objects.filter(phc_id=phc_id).first()
IncRead(p) ==
    /\ pc[p] = "inc_read"
    /\ Step(p, "inc_save", [ loc[p] EXCEPT !.md = meta[loc[p].phc] ])
    /\ UNCHANGED << now, store, ops >>

\* increment_patient_count: metadata.save() of the incremented counter, or
\* TrainingMetadata.objects.create (unique phc_id; its failure is swallowed)
IncSave(p) ==
    LET s == loc[p].phc
        md == loc[p].md
    IN  /\ pc[p] = "inc_save"
        /\ meta' = IF md.exists
                   THEN [ meta EXCEPT ![s].count = md.count + 1 ]
                   ELSE IF meta[s].exists THEN meta
                   ELSE [ meta EXCEPT ![s] = NewMeta(1) ]
        /\ Step(p, "trig_read", [ loc[p] EXCEPT !.md = NoMeta ])
        /\ UNCHANGED << now, patients, localModels, globalModels, broadcasts, alerts, riskScores, ops >>

\* should_trigger_local_training on the metadata document m at time t
should_trigger_local_training(m, t) ==
    IF ~m.exists THEN << FALSE, "metadata_initialized" >>
    ELSE IF m.count >= PATIENT_THRESHOLD THEN << TRUE, "patient_threshold" >>
    ELSE IF m.last # None /\ t - m.last >= TIME_THRESHOLD THEN << TRUE, "time_threshold" >>
    ELSE << FALSE, "no_trigger" >>

\* handle_patient_creation step 2: the trigger check, and the return when
\* training is not due
TrigRead(p) ==
    LET s == loc[p].phc
        t == should_trigger_local_training(meta[s], now)
    IN  /\ pc[p] = "trig_read"
        /\ meta' = IF meta[s].exists THEN meta ELSE [ meta EXCEPT ![s] = NewMeta(0) ]
        /\ IF t[1]
           THEN Step(p, "lock_read", [ loc[p] EXCEPT !.reason = t[2] ])
           ELSE Return(p, [ loc[p] EXCEPT !.reason = t[2] ], t[2])
        /\ UNCHANGED << now, patients, localModels, globalModels, broadcasts, alerts, riskScores, ops >>

\* `if metadata and metadata.training_in_progress`
TrainingInProgressIgnored(md) == FALSE

TrainingInProgress(md) == md.exists /\ md.lock

\* handle_patient_creation: the read of training_in_progress
LockRead(p) ==
    LET md == meta[loc[p].phc]
    IN  /\ pc[p] = "lock_read"
        /\ IF TrainingInProgress(md)
           THEN Return(p, loc[p], "training_in_progress")
           ELSE Step(p, "lock_save", [ loc[p] EXCEPT !.md = md ])
        /\ UNCHANGED << now, store, ops >>

\* handle_patient_creation: metadata.training_in_progress = True; save()
LockSave(p) ==
    LET s == loc[p].phc
        md == loc[p].md
    IN  /\ pc[p] = "lock_save"
        /\ meta' = IF md.exists THEN [ meta EXCEPT ![s].lock = TRUE ] ELSE meta
        /\ Step(p, "tfm_patients", [ loc[p] EXCEPT !.setLock = md.exists, !.md = NoMeta ])
        /\ UNCHANGED << now, patients, localModels, globalModels, broadcasts, alerts, riskScores, ops >>

\* a release of the lock on the success path only
record_training_completion_on_success(md, s, success) ==
    IF ~md.exists THEN meta
    ELSE [ meta EXCEPT
             ![s].last  = IF success /\ md.last # now THEN now ELSE @,
             ![s].count = IF success /\ md.count # 0 THEN 0 ELSE @,
             ![s].lock  = IF success /\ md.lock THEN FALSE ELSE @ ]

\* a completion that resets the counter and the time whatever the outcome
record_training_completion_with_reset(md, s, success) ==
    IF ~md.exists THEN meta
    ELSE [ meta EXCEPT
             ![s].last  = IF md.last # now THEN now ELSE @,
             ![s].count = IF md.count # 0 THEN 0 ELSE @,
             ![s].lock  = IF md.lock THEN FALSE ELSE @ ]

\* metadata.save() of record_training_completion: the fields whose assigned
\* value differs from the document as read (md) are written
record_training_completion(md, s, success) ==
    IF ~md.exists THEN meta
    ELSE [ meta EXCEPT
             ![s].last  = IF success /\ md.last # now THEN now ELSE @,
             ![s].count = IF success /\ md.count # 0 THEN 0 ELSE @,
             ![s].lock  = IF md.lock THEN FALSE ELSE @ ]

\* train_federated_model returns to the entry point that called it
TfmReturn(p, r, err) ==
    LET acc == IF err = "ok" THEN PrimaryAccuracy(r.metrics) ELSE 0
        res == [ r EXCEPT !.tres = err, !.racc = acc,
                          !.split = NoSplit, !.metrics = NoMetrics ]
    IN  IF r.op = "handler"
        THEN Step(p, "fin_read", res)
        ELSE IF r.op = "script"
        THEN Return(p, res, err)
        ELSE Step(p, "adm_loop", [ res EXCEPT !.j = @ + 1 ])

\* train_local_model: `if len(X) < 10` is the error branch
EnoughSamplesAlways(n) == TRUE

EnoughSamples(n) == n >= MIN_SAMPLES

\* the error of a training that stores no model: the empty-dataset return of
\* train_federated_model, the minimum-samples return of train_local_model,
\* or one of the later, data-dependent failures
TrainingError(n) ==
    IF n = 0 THEN "no_patient_data"
    ELSE IF ~EnoughSamples(n) THEN "insufficient_data"
    ELSE "validation_error"

\* the evaluations a training of n samples can end with; the metrics of a
\* training started by a request decide nothing in the request, one
\* evaluation stands for them
Splits(op, n) ==
    { Split(n, k) : k \in IF op = "script" THEN Misses \cap 0..TestSize(n) ELSE { 0 } }

\* train_federated_model: the patients query, preprocess_data,
\* train_local_model and evaluate_model; data-dependent validation failures
\* (single class, evaluation error) are either outcome
TfmPatients(p) ==
    LET n == patients[loc[p].phc]
    IN  /\ pc[p] = "tfm_patients"
        /\ \/ TfmReturn(p, loc[p], TrainingError(n))
           \/ /\ n # 0 /\ EnoughSamples(n)
              /\ \E o \in Splits(loc[p].op, n) :
                    Step(p, "tfm_latest", [ loc[p] EXCEPT !.split = o,
                                                          !.metrics = evaluate_model(o) ])
        /\ UNCHANGED << now, store, ops >>

\* train_federated_model: latest_version query and next_version
TfmLatest(p) ==
    /\ pc[p] = "tfm_latest"
    /\ Step(p, "tfm_create", [ loc[p] EXCEPT !.ver = LatestVersion(loc[p].phc) + 1 ])
    /\ UNCHANGED << now, store, ops >>

\* train_federated_model: LocalModel.objects.create; a duplicate version
\* string raises and the except branch returns an error result
TfmCreate(p) ==
    LET s == loc[p].phc
        vs == generate_local_version_string(s, loc[p].ver)
    IN  /\ pc[p] = "tfm_create"
        /\ IF LocalVersionStringFree(vs)
           THEN /\ localModels' = [ localModels EXCEPT
                                       ![s] = Append(@, NewLocalModel(s, loc[p].ver, loc[p].split)) ]
                /\ Step(p, "rtc_read", [ loc[p] EXCEPT !.trained = Len(localModels[s]) + 1,
                                                       !.ver = 0 ])
           ELSE /\ UNCHANGED localModels
                /\ TfmReturn(p, [ loc[p] EXCEPT !.ver = 0 ], "not_unique")
        /\ UNCHANGED << now, patients, meta, globalModels, broadcasts, alerts, riskScores, ops >>

\* train_federated_model: record_training_completion(phc_id), the read
RtcRead(p) ==
    /\ pc[p] = "rtc_read"
    /\ Step(p, "rtc_save", [ loc[p] EXCEPT !.md = meta[loc[p].phc] ])
    /\ UNCHANGED << now, store, ops >>

\* train_federated_model: record_training_completion(phc_id), the save
RtcSave(p) ==
    /\ pc[p] = "rtc_save"
    /\ meta' = record_training_completion(loc[p].md, loc[p].phc, TRUE)
    /\ Step(p, "drift", [ loc[p] EXCEPT !.md = NoMeta ])
    /\ UNCHANGED << now, patients, localModels, globalModels, broadcasts, alerts, riskScores, ops >>

\* order_by('-version').skip(k).first() over the site's models: the id of
\* the document with the (k+1)-th highest version, 0 when there is none
NthLatest(phc, k) ==
    LET ids == { i \in Ids(phc) :
                   Cardinality({ j \in Ids(phc) :
                       localModels[phc][j].version > localModels[phc][i].version }) = k }
    IN  IF ids = {} THEN 0 ELSE Max(ids)

\* accuracy_drop_percentage > pct, with accuracy_drop_percentage =
\* (previous - latest) / previous * 100 when previous > 0 and 0 otherwise
DropExceedsOrEquals(previous, latest, pct) ==
    previous > 0 /\ (previous - latest) * 100 >= pct * previous

DropExceeds(previous, latest, pct) ==
    previous > 0 /\ (previous - latest) * 100 > pct * previous

\* detect_model_drift: drift_detected
DriftDetected(previous, latest) == DropExceeds(previous, latest, DRIFT_THRESHOLD)

\* detect_model_drift: severity of the alert
DriftSeverity(previous, latest) ==
    IF DropExceeds(previous, latest, DRIFT_HIGH) THEN "HIGH" ELSE "MEDIUM"

\* detect_model_drift: the Alert of a detected drift; the risk score is the
\* drop in percent
DriftAlert(phc, previous, latest) ==
    [ phc_id |-> phc, alert_type |-> "MODEL_DRIFT",
      severity |-> DriftSeverity(previous.accuracy, latest.accuracy),
      previous_accuracy |-> previous.accuracy,
      current_accuracy |-> latest.accuracy,
      local_model_version |-> latest.version ]

\* train_federated_model: detect_model_drift(phc_id), the `latest` query
DriftLatest(p) ==
    /\ pc[p] = "drift"
    /\ Step(p, "drift_previous", [ loc[p] EXCEPT !.latest = NthLatest(loc[p].phc, 0) ])
    /\ UNCHANGED << now, store, ops >>

\* Alert.objects.create
CreateAlert(a) == alerts (+) SetToBag({ a })

\* detect_model_drift: the `previous` query, the comparison and the alert
DriftPrevious(p) ==
    LET s == loc[p].phc
        l == loc[p].latest
        pr == NthLatest(s, 1)
        res == IF l = 0 \/ pr = 0 THEN "insufficient_history"
               ELSE IF DriftDetected(localModels[s][pr].accuracy, localModels[s][l].accuracy)
               THEN "drift" ELSE "no_drift"
    IN  /\ pc[p] = "drift_previous"
        /\ alerts' = IF res = "drift"
                      THEN CreateAlert(DriftAlert(s, localModels[s][pr], localModels[s][l]))
                      ELSE alerts
        /\ Step(p, "risk", [ loc[p] EXCEPT !.ran = @ \cup { "drift" }, !.latest = 0,
                                            !.dres = res ])
        /\ UNCHANGED << now, patients, meta, localModels, globalModels, broadcasts, riskScores, ops >>

\* calculate_composite_risk_score: the Alert it creates; score and severity
\* derive from patient fields that are not part of the state
RiskAlert(phc) == [ phc_id |-> phc, alert_type |-> "COMPOSITE_RISK" ]

\* train_federated_model: calculate_composite_risk_score(phc_id), which
\* returns early without patients; its own except branch turns a failure
\* into a result object
Risk(p) ==
    /\ pc[p] = "risk"
    /\ alerts' = IF patients[loc[p].phc] = 0 THEN alerts
                  ELSE CreateAlert(RiskAlert(loc[p].phc))
    /\ Step(p, "chk_any", [ loc[p] EXCEPT !.ran = @ \cup { "risk" } ])
    /\ UNCHANGED << now, patients, meta, localModels, globalModels, broadcasts, riskScores, ops >>

\* handle_patient_creation: record_training_completion after the training
\* returned, the read
FinRead(p) ==
    /\ pc[p] = "fin_read"
    /\ Step(p, "fin_save", [ loc[p] EXCEPT !.md = meta[loc[p].phc] ])
    /\ UNCHANGED << now, store, ops >>

\* handle_patient_creation: record_training_completion after the training
\* returned, the save, and the return of the handler
FinSave(p) ==
    /\ pc[p] = "fin_save"
    /\ meta' = record_training_completion(loc[p].md, loc[p].phc, loc[p].tres = "ok")
    /\ Return(p, loc[p], IF loc[p].tres = "ok" THEN "model_trained" ELSE "error")
    /\ UNCHANGED << now, patients, localModels, globalModels, broadcasts, alerts, riskScores, ops >>

\* the response is sent and the request ends
Finish(p) ==
    /\ pc[p] = "done"
    /\ Step(p, "idle", IdleLoc)
    /\ UNCHANGED << now, store, ops >>

\* ------------------------------------------------------ federated aggregator

\* LocalModel.objects.filter(aggregated=False), as the phc_id of its documents
UnaggregatedPhcs ==
    { s \in Sites : \E k \in Ids(s) : ~localModels[s][k].aggregated }

\* len(phc_ids) >= 3 of should_trigger_global_aggregation
ThresholdMetAtTwo(phc_ids) == Cardinality(phc_ids) >= MIN_PHCS - 1

ThresholdMet(phc_ids) == Cardinality(phc_ids) >= MIN_PHCS

\* versions of the GlobalModels whose creating call has not returned yet
OpenVersions == { loc[q].created : q \in { r \in Procs : pc[r] = "agg_mark" } }

\* aggregate_models returns to its caller: try_automatic_aggregation inside
\* train_federated_model (which ignores the value), or the admin view
AggReturn(p, r, res) ==
    IF r.auto
    THEN TfmReturn(p, [ r EXCEPT !.ares = res ], "ok")
    ELSE Return(p, [ r EXCEPT !.ares = res ], res)

\* should_trigger_global_aggregation: `if not unaggregated` (a first query)
ChkAny(p) ==
    /\ pc[p] = "chk_any"
    /\ IF UnaggregatedPhcs = {}
       THEN TfmReturn(p, [ loc[p] EXCEPT !.areason = "no_models",
                                         !.ran = @ \cup { "aggregation" } ], "ok")
       ELSE Step(p, "chk_iter", [ loc[p] EXCEPT !.ran = @ \cup { "aggregation" } ])
    /\ UNCHANGED << now, store, ops >>

\* should_trigger_global_aggregation: the iteration over the unaggregated
\* models and the threshold; try_automatic_aggregation calls
\* aggregate_models(automatic=True) when it is met
ChkIter(p) ==
    LET phc_ids == UnaggregatedPhcs
    IN  /\ pc[p] = "chk_iter"
        /\ IF ThresholdMet(phc_ids)
           THEN Step(p, "agg_collect",
                     [ loc[p] EXCEPT !.areason = "threshold_met", !.pend = phc_ids,
                                     !.auto = TRUE, !.i = 1, !.peers = OpenVersions ])
           ELSE TfmReturn(p, [ loc[p] EXCEPT !.areason = "insufficient_phcs",
                                             !.pend = phc_ids ], "ok")
        /\ UNCHANGED << now, store, ops >>

\* the per-site query of aggregate_models: order_by('-trained_at').first()
\* over the site's models, restricted to aggregated=False when automatic
LatestForAggregationAnyState(phc, automatic) ==
    IF Ids(phc) = {} THEN 0 ELSE Max(Ids(phc))

LatestForAggregationUnaggregated(phc, automatic) ==
    LET ids == { k \in Ids(phc) : ~localModels[phc][k].aggregated }
    IN  IF ids = {} THEN 0 ELSE Max(ids)

LatestForAggregation(phc, automatic) ==
    LET ids == { k \in Ids(phc) : automatic => ~localModels[phc][k].aggregated }
    IN  IF ids = {} THEN 0 ELSE Max(ids)

\* aggregate_models: one iteration of the collection loop
AggCollect(p) ==
    LET s == PhcRange[loc[p].i]
        latest == LatestForAggregation(s, loc[p].auto)
        r == [ loc[p] EXCEPT
                 !.col[s] = latest,
                 !.colAgg = IF latest # 0 /\ localModels[s][latest].aggregated
                            THEN @ \cup {s} ELSE @,
                 !.i = @ + 1 ]
    IN  /\ pc[p] = "agg_collect"
        /\ Step(p, IF loc[p].i = Len(PhcRange) THEN "agg_latest" ELSE "agg_collect", r)
        /\ UNCHANGED << now, store, ops >>

Contributors(col) == { s \in PhcRangeSet : col[s] # 0 }

\* phc_models: the metrics of the collected documents
PhcModels(col) ==
    [ s \in Contributors(col) |->
        [ accuracy     |-> localModels[s][col[s]].accuracy,
          sample_count |-> localModels[s][col[s]].sample_count ] ]

\* sum(f[x] for x in S)
RECURSIVE SumOver(_, _)
SumOver(S, f) ==
    IF S = {} THEN 0
    ELSE LET x == CHOOSE y \in S : TRUE
         IN  f[x] + SumOver(S \ {x}, f)

\* total_samples of aggregate_models
TotalSamples(ms) == SumOver(DOMAIN ms, [ s \in DOMAIN ms |-> ms[s].sample_count ])

\* aggregate_models: the plain mean of the contributors' accuracy
AggregatedAccuracyUnweighted(ms) ==
    RoundDiv(SumOver(DOMAIN ms, [ s \in DOMAIN ms |-> ms[s].accuracy ]),
             Cardinality(DOMAIN ms))

\* aggregate_models: aggregated_accuracy, weighted by sample count, as
\* stored by round(float(aggregated_accuracy), 4)
AggregatedAccuracy(ms) ==
    IF TotalSamples(ms) > 0
    THEN RoundDiv(SumOver(DOMAIN ms,
                          [ s \in DOMAIN ms |-> ms[s].accuracy * ms[s].sample_count ]),
                  TotalSamples(ms))
    ELSE 0

\* aggregate_models: `if not phc_models: return None`, then the
\* latest_global query and next_version
AggLatest(p) ==
    /\ pc[p] = "agg_latest"
    /\ IF Contributors(loc[p].col) = {}
       THEN AggReturn(p, loc[p], "none")
       ELSE Step(p, "agg_create", [ loc[p] EXCEPT !.ver = LatestGlobalVersion + 1 ])
    /\ UNCHANGED << now, store, ops >>

\* index of the first contributor at or after position i of the mark loop
NextMark(col, i) ==
    LET rest == { k \in i..Len(PhcRange) : col[PhcRange[k]] # 0 }
    IN  IF rest = {} THEN Len(PhcRange) + 1 ELSE CHOOSE k \in rest : \A m \in rest : k <= m

\* aggregate_models: GlobalModel.objects.create; a duplicate version raises
\* and the except branch returns None
AggCreate(p) ==
    LET col == loc[p].col
        v == loc[p].ver
    IN  /\ pc[p] = "agg_create"
        /\ IF GlobalVersionFree(v)
           THEN /\ globalModels' = Append(globalModels,
                     [ version |-> v,
                       version_string |-> generate_global_version_string(v),
                       accuracy |-> AggregatedAccuracy(PhcModels(col)),
                       contributors |-> Contributors(col),
                       contributor_versions |->
                           [ s \in Contributors(col) |->
                               localModels[s][col[s]].version_string ],
                       aggregation_triggered_by |->
                           IF loc[p].auto THEN "automatic" ELSE "manual",
                       \* history: what the creating call had observed
                       collected |-> col,
                       collectedAggregated |-> loc[p].colAgg,
                       pending |-> loc[p].pend,
                       peers |-> loc[p].peers ])
                /\ pc' = [ pc EXCEPT ![p] = "agg_mark" ]
                /\ loc' = [ q \in Procs |->
                            IF q = p
                            THEN [ loc[p] EXCEPT !.created = v, !.i = NextMark(col, 1) ]
                            ELSE IF pc[q] \in { "agg_collect", "agg_latest", "agg_create" }
                            THEN [ loc[q] EXCEPT !.peers = @ \cup {v} ]
                            ELSE loc[q] ]
           ELSE /\ UNCHANGED globalModels
                /\ AggReturn(p, [ loc[p] EXCEPT !.aexc = "not_unique" ], "none")
        /\ UNCHANGED << now, patients, meta, localModels, broadcasts, alerts, riskScores, ops >>

\* LocalModel.objects.filter(id=...).update(aggregated=True,
\* aggregated_in_version=next_version, ...)
MarkAggregatedVersionOnly(s, k, v) ==
    [ localModels EXCEPT ![s][k].aggregated_in_version = v ]

MarkAggregated(s, k, v) ==
    [ localModels EXCEPT ![s][k].aggregated = TRUE, ![s][k].aggregated_in_version = v ]

\* aggregate_models: the update of one contributor in the marking loop
AggMark(p) ==
    LET s == PhcRange[loc[p].i]
        k == loc[p].col[s]
    IN  /\ pc[p] = "agg_mark"
        /\ loc[p].i <= Len(PhcRange)
        /\ localModels' = MarkAggregated(s, k, loc[p].ver)
        /\ Set(p, [ loc[p] EXCEPT !.i = NextMark(loc[p].col, loc[p].i + 1) ])
        /\ UNCHANGED << now, patients, meta, globalModels, broadcasts, alerts, riskScores, pc, ops >>

\* broadcast_global_model: a ModelBroadcast per site of range(1, 5)
broadcast_global_model(v) ==
    broadcasts \cup { [ phc_id |-> s, global_model_version |-> v ] : s \in PhcRangeSet }

\* aggregate_models: the broadcast and the returned result
AggBroadcast(p) ==
    /\ pc[p] = "agg_mark"
    /\ loc[p].i > Len(PhcRange)
    /\ broadcasts' = broadcast_global_model(loc[p].ver)
    /\ AggReturn(p, loc[p], "ok")
    /\ UNCHANGED << now, patients, meta, localModels, globalModels, alerts, riskScores, ops >>

\* ------------------------------------------------------- admin aggregation

\* AggregateModelsView.post
StartAdmin(p) ==
    /\ pc[p] = "idle"
    /\ FirstFree(p)
    /\ ops < MaxOps
    /\ ops' = ops + 1
    /\ Step(p, "adm_loop", [ IdleLoc EXCEPT !.op = "admin", !.j = 1 ])
    /\ UNCHANGED << now, store >>

\* AggregateModelsView.post: one iteration of the auto-training loop (the
\* patient count and has_model queries), then aggregate_models(automatic=False)
AdmLoop(p) ==
    /\ pc[p] = "adm_loop"
    /\ IF loc[p].j > Len(PhcRange)
       THEN Step(p, "agg_collect",
                 [ loc[p] EXCEPT !.auto = FALSE, !.i = 1, !.col = NoCollected,
                                 !.colAgg = {}, !.pend = {}, !.areason = "-",
                                 !.ares = "-", !.aexc = "-", !.created = 0,
                                 !.peers = OpenVersions ])
       ELSE LET s == PhcRange[loc[p].j]
            IN  IF patients[s] >= MIN_PATIENTS_ADMIN /\ Ids(s) = {}
                THEN Step(p, "tfm_patients",
                          [ IdleLoc EXCEPT !.op = "admin", !.j = loc[p].j, !.phc = s,
                                           !.reason = "manual" ])
                ELSE Step(p, "adm_loop", [ IdleLoc EXCEPT !.op = "admin", !.j = loc[p].j + 1 ])
    /\ UNCHANGED << now, store, ops >>

\* ------------------------------------------------------------ specification

Next ==
    \E p \in Procs :
        \/ \E s \in Sites : StartHandler(p, s)
        \/ IncRead(p) \/ IncSave(p) \/ TrigRead(p) \/ LockRead(p) \/ LockSave(p)
        \/ TfmPatients(p) \/ TfmLatest(p) \/ TfmCreate(p) \/ RtcRead(p) \/ RtcSave(p)
        \/ DriftLatest(p) \/ DriftPrevious(p) \/ Risk(p) \/ ChkAny(p) \/ ChkIter(p)
        \/ AggCollect(p) \/ AggLatest(p) \/ AggCreate(p) \/ AggMark(p) \/ AggBroadcast(p)
        \/ FinRead(p) \/ FinSave(p)
        \/ StartAdmin(p) \/ AdmLoop(p)
        \/ Finish(p)

Spec == Init /\ [][Next]_vars

\* aggregate_models: the store raises inside the marking loop; the except
\* branch logs and returns None
AggMarkFail(p) ==
    /\ pc[p] = "agg_mark"
    /\ loc[p].i <= Len(PhcRange)
    /\ AggReturn(p, [ loc[p] EXCEPT !.aexc = "store_error" ], "none")
    /\ UNCHANGED << now, store, ops >>

\* the same requests over a store whose writes can fail
NextStoreFail == Next \/ \E p \in Procs : AggMarkFail(p)

SpecStoreFail == Init /\ [][NextStoreFail]_vars

\* the site of a burst of patient submissions
BurstSite == "PHC_1"

\* views.py: a patient submission of the burst
StartBurst(p) ==
    /\ pc[p] = "idle"
    /\ FirstFree(p)
    /\ ops < MaxBurst
    /\ ops' = ops + 1
    /\ patients' = [ patients EXCEPT ![BurstSite] = @ + 1 ]
    /\ Step(p, "inc_read", [ IdleLoc EXCEPT !.op = "handler", !.phc = BurstSite ])
    /\ UNCHANGED << now, meta, localModels, globalModels, broadcasts, alerts, riskScores >>

\* a burst of patient submissions at one site, no admin request
NextBurst ==
    \E p \in Procs :
        \/ StartBurst(p)
        \/ IncRead(p) \/ IncSave(p) \/ TrigRead(p) \/ LockRead(p) \/ LockSave(p)
        \/ TfmPatients(p) \/ TfmLatest(p) \/ TfmCreate(p) \/ RtcRead(p) \/ RtcSave(p)
        \/ DriftLatest(p) \/ DriftPrevious(p) \/ Risk(p) \/ ChkAny(p) \/ ChkIter(p)
        \/ AggCollect(p) \/ AggLatest(p) \/ AggCreate(p) \/ AggMark(p) \/ AggBroadcast(p)
        \/ FinRead(p) \/ FinSave(p)
        \/ Finish(p)

SpecBurst == Init /\ [][NextBurst]_vars

\* views.py: a patient submission that arrives when no other request runs
StartSerial(p, s) ==
    /\ \A q \in Procs : pc[q] = "idle"
    /\ FirstFree(p)
    /\ ops < MaxSerial
    /\ ops' = ops + 1
    /\ patients' = [ patients EXCEPT ![s] = @ + 1 ]
    /\ Step(p, "inc_read", [ IdleLoc EXCEPT !.op = "handler", !.phc = s ])
    /\ UNCHANGED << now, meta, localModels, globalModels, broadcasts, alerts, riskScores >>

\* patient submissions handled one after another, with the clock running
NextSerial ==
    \/ Tick
    \/ \E p \in Procs :
        \/ \E s \in Sites : StartSerial(p, s)
        \/ IncRead(p) \/ IncSave(p) \/ TrigRead(p) \/ LockRead(p) \/ LockSave(p)
        \/ TfmPatients(p) \/ TfmLatest(p) \/ TfmCreate(p) \/ RtcRead(p) \/ RtcSave(p)
        \/ DriftLatest(p) \/ DriftPrevious(p) \/ Risk(p) \/ ChkAny(p) \/ ChkIter(p)
        \/ AggCollect(p) \/ AggLatest(p) \/ AggCreate(p) \/ AggMark(p) \/ AggBroadcast(p)
        \/ FinRead(p) \/ FinSave(p)
        \/ Finish(p)

SpecSerial == Init /\ [][NextSerial]_vars

\* the site train_phc5.py trains
ScriptSite == "PHC_5"

\* patient records the site can hold when the script runs
SampleCounts == { 0, 1, MIN_SAMPLES - 1, MIN_SAMPLES, 66 }

\* sites whose model was trained outside the server, registered by
\* register_models.py and renamed to the PHC_n form by fix_format_mismatches.py
RegisteredSites == { "PHC_1", "PHC_2", "PHC_3" }

\* sample count and accuracy (in units of 0.0001) of a registered model
RegisteredMetrics == { << 50, 8000 >>, << 150, 9000 >>, << 100, 8500 >> }

\* the metrics files of the registered sites: the first site's is one file,
\* those of the others are any of the three
RegisteredProfiles ==
    { reg \in [ RegisteredSites -> RegisteredMetrics ] : reg["PHC_1"] = << 50, 8000 >> }

\* register_models.py: the LocalModel of a site, from its metrics file; its
\* version string keeps the site's name without the underscore
RegisteredModel(phc, m) ==
    [ phc_id |-> phc, version |-> 1,
      version_string |-> << "local", "registered", phc, 1 >>,
      accuracy |-> m[2],
      sample_count |-> m[1],
      weights |-> [ train_accuracy |-> None ],
      aggregated |-> FALSE, aggregated_in_version |-> None,
      split |-> NoSplit ]

\* three sites with a registered model, the script's site untrained with
\* few patients
InitScript ==
    /\ now = 0
    /\ \E n \in SampleCounts :
          patients = [ s \in Sites |->
                         IF s \in RegisteredSites THEN PATIENT_THRESHOLD
                         ELSE IF s = ScriptSite THEN n ELSE 0 ]
    /\ meta = [ s \in Sites |->
                  IF s \in RegisteredSites
                  THEN [ exists |-> TRUE, count |-> 0, last |-> 0, lock |-> FALSE ]
                  ELSE NoMeta ]
    /\ \E reg \in RegisteredProfiles :
          localModels = [ s \in Sites |->
                            IF s \in RegisteredSites
                            THEN << RegisteredModel(s, reg[s]) >> ELSE << >> ]
    /\ globalModels = << >>
    /\ broadcasts = {}
    /\ alerts = EmptyBag
    /\ riskScores = << >>
    /\ pc = [ p \in Procs |-> "idle" ]
    /\ loc = [ p \in Procs |-> IdleLoc ]
    /\ ops = 0

\* train_phc5.py: train_federated_model(phc_id), whatever the patient count
StartScript(p) ==
    /\ pc[p] = "idle"
    /\ FirstFree(p)
    /\ ops < MaxOps
    /\ ops' = ops + 1
    /\ Step(p, "tfm_patients", [ IdleLoc EXCEPT !.op = "script", !.phc = ScriptSite,
                                                  !.reason = "MANUAL_INITIALIZATION" ])
    /\ UNCHANGED << now, store >>

\* runs of the training script, possibly two at once
NextScript ==
    \E p \in Procs :
        \/ StartScript(p)
        \/ TfmPatients(p) \/ TfmLatest(p) \/ TfmCreate(p) \/ RtcRead(p) \/ RtcSave(p)
        \/ DriftLatest(p) \/ DriftPrevious(p) \/ Risk(p) \/ ChkAny(p) \/ ChkIter(p)
        \/ AggCollect(p) \/ AggLatest(p) \/ AggCreate(p) \/ AggMark(p) \/ AggBroadcast(p)
        \/ Finish(p)

SpecScript == InitScript /\ [][NextScript]_vars

\* feature_columns of a call: symptom and vital columns, with or without
\* the columns that hold the diagnosis
FeatureLists ==
    { { "fever", "wbc_count" } \cup extra : extra \in SUBSET { "diagnosis", "disease_label" } }

\* X, y, feature_columns of a call: len(X), len(y), whether X holds NaN or
\* Inf, the feature names, the number of distinct labels in y
TrainerArgs ==
    [ n : { MIN_SAMPLES - 1, MIN_SAMPLES }, ny : { MIN_SAMPLES, MIN_SAMPLES + 1 },
      bad : BOOLEAN, features : FeatureLists, classes : { 1, 2 } ]

\* train_local_model: the validations in their order; "fit" when the call
\* goes on to scale, split and fit the classifier
train_local_model(a) ==
    IF a.n < MIN_SAMPLES THEN "insufficient_data"
    ELSE IF a.n # a.ny THEN "shape_mismatch"
    ELSE IF a.bad THEN "invalid_feature_value"
    ELSE IF "diagnosis" \in a.features THEN "data_leakage"
    ELSE IF a.classes < 2 THEN "single_class"
    ELSE "fit"

\* test_training_validation.py: a direct call train_local_model(X, y, feature_columns)
StartTrainer(p) ==
    /\ pc[p] = "idle"
    /\ FirstFree(p)
    /\ ops < MaxOps
    /\ ops' = ops + 1
    /\ \E a \in TrainerArgs :
          Step(p, "tlm", [ IdleLoc EXCEPT !.op = "trainer", !.args = a ])
    /\ UNCHANGED << now, store >>

\* the call runs and returns its model data or its error
TrainerCall(p) ==
    /\ pc[p] = "tlm"
    /\ Return(p, [ loc[p] EXCEPT !.tres = train_local_model(loc[p].args) ],
              train_local_model(loc[p].args))
    /\ UNCHANGED << now, store, ops >>

\* direct calls of the Local Trainer
NextTrainer == \E p \in Procs : StartTrainer(p) \/ TrainerCall(p) \/ Finish(p)

SpecTrainer == Init /\ [][NextTrainer]_vars

\* sites with patient records when the Composite Risk Scorer is called
RiskSites == { "PHC_1", "PHC_5" }

\* sites with and without patients, with and without a LocalModel
InitRisk ==
    /\ now = 0
    /\ patients = [ s \in Sites |-> IF s \in RiskSites THEN MIN_SAMPLES ELSE 0 ]
    /\ meta = [ s \in Sites |-> NoMeta ]
    /\ localModels = [ s \in Sites |->
                         IF s \in RegisteredSites
                         THEN << RegisteredModel(s, << 50, 8000 >>) >> ELSE << >> ]
    /\ globalModels = << >>
    /\ broadcasts = {}
    /\ alerts = EmptyBag
    /\ riskScores = << >>
    /\ pc = [ p \in Procs |-> "idle" ]
    /\ loc = [ p \in Procs |-> IdleLoc ]
    /\ ops = 0

\* the clinical counts n patient records can show: how many have fever = 1,
\* a disease label with one of the keywords, a WBC count outside 4500..11000
ClinicalData(n) ==
    IF n = 0 THEN { NoData }
    ELSE { [ n |-> n, fever |-> f, keyword |-> k, wbc |-> w ] :
             f \in { 0, 4, n }, k \in { 0, 3, n }, w \in { 0, 2, n } }

\* severity bands of the composite score num / n
RiskSeverity(num, n) ==
    IF num < 30 * n THEN "LOW" ELSE IF num < 60 * n THEN "MEDIUM" ELSE "HIGH"

\* positive_predictions: keyword matches are counted `if latest_model`
PositivePredictions(d, has_model) == IF has_model THEN d.keyword ELSE 0

\* the alert is created for LOW, MEDIUM and HIGH alike
CreatesAlertWhenNotLow(severity) == severity \in { "MEDIUM", "HIGH" }

CreatesAlert(severity) == severity \in { "LOW", "MEDIUM", "HIGH" }

\* calculate_composite_risk_score: the result for the patients d of a site;
\* the score is 0.4, 0.3 and 0.3 of the three percentages, clamped to
\* [0, 100], here as round(composite_score, 2) in units of 0.01
calculate_composite_risk_score(d, has_model) ==
    IF d.n = 0
    THEN [ NoRisk EXCEPT !.severity = "LOW", !.reason = "no_patients" ]
    ELSE LET sum == 40 * d.fever + 30 * PositivePredictions(d, has_model) + 30 * d.wbc
             num == IF sum > 100 * d.n THEN 100 * d.n ELSE IF sum < 0 THEN 0 ELSE sum
             severity == RiskSeverity(num, d.n)
         IN  [ risk_score |-> RoundDiv(100 * num, d.n), severity |-> severity,
               reason |-> "-", alert_created |-> CreatesAlert(severity) ]

\* the Alert of calculate_composite_risk_score with its score and breakdown
CompositeRiskAlert(phc, d, r) ==
    [ phc_id |-> phc, alert_type |-> "COMPOSITE_RISK",
      risk_score |-> r.risk_score, severity |-> r.severity,
      local_model_version |-> LatestVersion(phc),
      breakdown |-> d ]

\* a call calculate_composite_risk_score(phc_id): the patients query
StartRisk(p, s) ==
    /\ pc[p] = "idle"
    /\ FirstFree(p)
    /\ ops < MaxOps
    /\ ops' = ops + 1
    /\ \E d \in ClinicalData(patients[s]) :
          Step(p, "crs", [ IdleLoc EXCEPT !.op = "risk", !.phc = s, !.data = d ])
    /\ UNCHANGED << now, store >>

\* calculate_composite_risk_score: the latest-model query, the score, the
\* alert and the returned result
RiskCall(p) ==
    LET s == loc[p].phc
        r == calculate_composite_risk_score(loc[p].data, Ids(s) # {})
    IN  /\ pc[p] = "crs"
        /\ alerts' = IF r.alert_created
                      THEN CreateAlert(CompositeRiskAlert(s, loc[p].data, r))
                      ELSE alerts
        /\ Return(p, [ loc[p] EXCEPT !.rres = r ], r.severity)
        /\ UNCHANGED << now, patients, meta, localModels, globalModels, broadcasts, riskScores, ops >>

\* direct calls of the Composite Risk Scorer
NextRisk == \E p \in Procs : (\E s \in Sites : StartRisk(p, s)) \/ RiskCall(p) \/ Finish(p)

SpecRisk == InitRisk /\ [][NextRisk]_vars

\* ------------------------------------------------- risk hierarchy calculator

DISTRICT_ID == "Coimbatore"

\* a field that is None in a RiskScore document
Absent == "none"

\* set(PHC_CITY_MAPPING.values())
Cities == { PHC_CITY_MAPPING[s] : s \in Sites }

\* PHC_CITY_MAPPING.items(), in the order of the dictionary
SiteOrder == << "PHC_1", "PHC_2", "PHC_3", "PHC_4", "PHC_5" >>

\* [phc for phc, c in PHC_CITY_MAPPING.items() if c == city]
PhcsOfCity(city) == SelectSeq(SiteOrder, LAMBDA s : PHC_CITY_MAPPING[s] = city)

\* the orders list(set(PHC_CITY_MAPPING.values())) can iterate in
CityOrders ==
    { o \in [ 1..Cardinality(Cities) -> Cities ] : \A i, j \in DOMAIN o : o[i] = o[j] => i = j }

\* the patients a site has in the window when it has any
SiteCohort ==
    [ PHC_1 |-> [ n |-> 30, high |-> 0, disease |-> 10 ],
      PHC_2 |-> [ n |-> 70, high |-> 0, disease |-> 70 ],
      PHC_3 |-> [ n |-> 10, high |-> 10, disease |-> 10 ],
      PHC_4 |-> [ n |-> 10, high |-> 4, disease |-> 5 ],
      PHC_5 |-> [ n |-> 20, high |-> 5, disease |-> 10 ] ]

\* the patients of a site after more severe cases arrived
LaterCohort(c) == [ c EXCEPT !.n = @ + 10, !.high = @ + 10, !.disease = @ + 10 ]

\* the in-window patients a calculation over the sites S can find: each site
\* has none or its cohort, before or after the later arrivals
CohortsFor(S) ==
    { [ s \in Sites |-> IF s \notin P THEN NoCohort
                        ELSE IF later THEN LaterCohort(SiteCohort[s]) ELSE SiteCohort[s] ] :
        P \in SUBSET S, later \in BOOLEAN }

\* the value of an expression, evaluated once
TheValue(S) == CHOOSE x \in S : TRUE

\* min(score, 1.0), in units of 0.0001
AtMostOne(score) == IF score > 10000 THEN 10000 ELSE score

\* RiskScore.objects(**q): positions of the documents whose fields match q
MatchingNone(rows, q) == {}

Matching(rows, q) ==
    { i \in 1..Len(rows) : \A f \in DOMAIN q : rows[i][f] = q[f] }

\* the assignments to the fields of a document
Assigned(row, changes) ==
    [ f \in DOMAIN row |-> IF f \in DOMAIN changes THEN changes[f] ELSE row[f] ]

\* RiskScore(...) with the field defaults of models.py
NewRiskScore ==
    [ phc_id |-> Absent, city |-> Absent, district_id |-> Absent,
      phc_risk_score |-> 0, city_risk_score |-> 0, district_risk_score |-> 0,
      high_severity_percentage |-> 0, outbreak_flag_percentage |-> 0,
      disease_prevalence_percentage |-> 0,
      patient_count |-> 0, evaluation_period |-> "daily",
      \* history: the patients the document was computed from
      input |-> [ s \in Sites |-> NoCohort ] ]

\* risk_record = RiskScore.objects(**q).first(); the assignments and save()
\* when it exists, RiskScore.objects.create(**q and values) otherwise
Upsert(rows, q, created, values) ==
    LET m == Matching(rows, q)
    IN  IF m = {}
        THEN Append(rows, Assigned(Assigned(NewRiskScore, created), values))
        ELSE LET i == CHOOSE k \in m : \A j \in m : k <= j
             IN  [ rows EXCEPT ![i] = Assigned(@, values) ]

\* the cohort of the sites S alone
Only(cohort, S) == [ s \in Sites |-> IF s \in S THEN cohort[s] ELSE NoCohort ]

\* calculate_phc_risk_score: the collection afterwards and the result; the
\* score is 0.4, 0.3 and 0.3 of the three percentages over 100, of which
\* the second and the third are both the disease percentage; scores are in
\* units of 0.0001 and percentages in units of 0.01
calculate_phc_risk_score(rows, phc_id, cohort) ==
    LET c == cohort[phc_id]
    IN  IF c.n = 0
        THEN [ rows |-> rows,
               result |-> [ NoHier EXCEPT !.has_total = TRUE, !.note = "Insufficient data" ] ]
        ELSE TheValue({
               [ rows |->
                   Upsert(rows,
                          [ phc_id |-> phc_id, district_id |-> DISTRICT_ID,
                            evaluation_period |-> "daily" ],
                          [ phc_id |-> phc_id, city |-> PHC_CITY_MAPPING[phc_id],
                            district_id |-> DISTRICT_ID ],
                          [ phc_risk_score |-> score,
                            high_severity_percentage |-> RoundDiv(10000 * c.high, c.n),
                            outbreak_flag_percentage |-> RoundDiv(10000 * c.disease, c.n),
                            disease_prevalence_percentage |-> RoundDiv(10000 * c.disease, c.n),
                            patient_count |-> c.n,
                            input |-> Only(cohort, { phc_id }) ]),
                 result |-> [ NoHier EXCEPT !.score = score, !.total = c.n,
                                            !.has_total = TRUE ] ] :
               score \in { AtMostOne(RoundDiv(4000 * c.high + 3000 * c.disease
                                                + 3000 * c.disease, c.n)) } })

\* calculate_city_risk_score: the loop over the sites of the city; phc_risks
\* is the sequence of the results
RECURSIVE PhcRisks(_, _, _, _)
PhcRisks(rows, phcs, cohort, phc_risks) ==
    IF phcs = << >> THEN [ rows |-> rows, phc_risks |-> phc_risks ]
    ELSE TheValue({ PhcRisks(phc_data.rows, Tail(phcs), cohort,
                             Append(phc_risks, phc_data.result)) :
                      phc_data \in { calculate_phc_risk_score(rows, Head(phcs), cohort) } })

\* sum(f(x) for x in a list)
RECURSIVE SumSeq(_)
SumSeq(q) == IF q = << >> THEN 0 ELSE Head(q) + SumSeq(Tail(q))

\* the average of the scores of `risks`, weighted by their patient counts
WeightedRisk(risks) ==
    AtMostOne(RoundDiv(SumSeq([ i \in DOMAIN risks |-> risks[i].score * risks[i].total ]),
                       SumSeq([ i \in DOMAIN risks |-> risks[i].total ])))

\* calculate_city_risk_score: the collection afterwards and the result; the
\* result of a city without patients has no 'total_patients'
calculate_city_risk_score(rows, city, cohort) ==
    TheValue({
        LET phc_ids == PhcsOfCity(city)
            total_patients ==
                SumSeq([ i \in DOMAIN loop.phc_risks |-> loop.phc_risks[i].total ])
        IN  IF phc_ids = << >>
            THEN [ rows |-> rows, result |-> [ NoHier EXCEPT !.note = "City not found" ] ]
            ELSE IF total_patients = 0
            THEN [ rows |-> loop.rows,
                   result |-> [ NoHier EXCEPT !.note = "Insufficient patient data" ] ]
            ELSE TheValue({
                   [ rows |->
                       Upsert(loop.rows,
                              [ city |-> city, district_id |-> DISTRICT_ID,
                                phc_id |-> Absent, evaluation_period |-> "daily" ],
                              [ city |-> city, district_id |-> DISTRICT_ID ],
                              [ city_risk_score |-> score, patient_count |-> total,
                                input |-> Only(cohort, { s \in Sites :
                                                          PHC_CITY_MAPPING[s] = city }) ]),
                     result |-> [ NoHier EXCEPT !.score = score, !.total = total,
                                                !.has_total = TRUE ] ] :
                   score \in { WeightedRisk(loop.phc_risks) }, total \in { total_patients } }) :
        loop \in { PhcRisks(rows, PhcsOfCity(city), cohort, << >>) } })

\* calculate_district_risk_score: the loop over the cities in the order
\* `cities`; city_data['total_patients'] of a result without that key raises
\* KeyError, which ends the loop
RECURSIVE CityRisks(_, _, _, _)
CityRisks(rows, cities, cohort, city_risks) ==
    IF cities = << >> THEN [ rows |-> rows, city_risks |-> city_risks, raised |-> FALSE ]
    ELSE TheValue({
             IF ~city_data.result.has_total
             THEN [ rows |-> city_data.rows, city_risks |-> city_risks, raised |-> TRUE ]
             ELSE CityRisks(city_data.rows, Tail(cities), cohort,
                            Append(city_risks, city_data.result)) :
             city_data \in { calculate_city_risk_score(rows, Head(cities), cohort) } })

\* calculate_district_risk_score: the collection afterwards and the result;
\* the except branch returns the error
calculate_district_risk_score(rows, district_id, cities, cohort) ==
    TheValue({
        LET total_patients ==
                SumSeq([ i \in DOMAIN loop.city_risks |-> loop.city_risks[i].total ])
        IN  IF loop.raised
            THEN [ rows |-> loop.rows, result |-> [ NoHier EXCEPT !.error = "KeyError" ] ]
            ELSE IF loop.city_risks = << >> \/ total_patients = 0
            THEN [ rows |-> loop.rows,
                   result |-> [ NoHier EXCEPT !.note = "Insufficient data" ] ]
            ELSE TheValue({
                   [ rows |->
                       Upsert(loop.rows,
                              [ district_id |-> district_id, phc_id |-> Absent,
                                city |-> Absent, evaluation_period |-> "daily" ],
                              [ district_id |-> district_id ],
                              [ district_risk_score |-> score, patient_count |-> total,
                                input |-> cohort ]),
                     result |-> [ NoHier EXCEPT !.score = score, !.total = total,
                                                !.has_total = TRUE ] ] :
                   score \in { WeightedRisk(loop.city_risks) }, total \in { total_patients } }) :
        loop \in { CityRisks(rows, cities, cohort, << >>) } })

\* the sites whose patients a calculation of the scope reads
SitesOfScope(scope) ==
    IF scope[1] = "phc" THEN { scope[2] }
    ELSE IF scope[1] = "city" THEN { s \in Sites : PHC_CITY_MAPPING[s] = scope[2] }
    ELSE Sites

\* the document is the one of the scope
RowIsOf(row, scope) ==
    IF scope[1] = "phc" THEN row.phc_id = scope[2]
    ELSE IF scope[1] = "city" THEN row.phc_id = Absent /\ row.city = scope[2]
    ELSE row.phc_id = Absent /\ row.city = Absent /\ row.district_id = scope[2]

\* the scope has a document computed from the same patients
Unchanged(rows, scope, cohort) ==
    \E i \in DOMAIN rows :
        RowIsOf(rows[i], scope) /\ rows[i].input = Only(cohort, SitesOfScope(scope))

\* the scopes test_city_hierarchy.py calculates
Scopes ==
    { << "phc", s >> : s \in Sites } \cup { << "city", c >> : c \in Cities }
        \cup { << "district", DISTRICT_ID >> }

\* test_city_hierarchy.py: one of its calls of the three calculations, with
\* the patients the window holds at that time
StartHier(p) ==
    /\ \A q \in Procs : pc[q] = "idle"
    /\ FirstFree(p)
    /\ ops < MaxOps
    /\ ops' = ops + 1
    /\ \E scope \in Scopes : \E cohort \in CohortsFor(SitesOfScope(scope)) :
       \E order \in IF scope[1] = "district" THEN CityOrders ELSE { << >> } :
          Step(p, "hier", [ IdleLoc EXCEPT !.op = "hierarchy", !.scope = scope,
                                           !.cohort = cohort, !.order = order ])
    /\ UNCHANGED << now, store >>

\* the calculation runs and returns; the script makes its calls one after
\* another, a call is complete before the next one starts
HierCall(p) ==
    LET scope == loc[p].scope
    IN  /\ pc[p] = "hier"
        /\ \E call \in
                { IF scope[1] = "phc"
                  THEN calculate_phc_risk_score(riskScores, scope[2], loc[p].cohort)
                  ELSE IF scope[1] = "city"
                  THEN calculate_city_risk_score(riskScores, scope[2], loc[p].cohort)
                  ELSE calculate_district_risk_score(riskScores, scope[2], loc[p].order,
                                                     loc[p].cohort) } :
              /\ riskScores' = call.rows
              /\ Return(p, [ loc[p] EXCEPT !.hres = call.result,
                                           !.same = Unchanged(riskScores, scope, loc[p].cohort) ],
                        IF call.result.error # "-" THEN "error" ELSE "ok")
        /\ UNCHANGED << now, patients, meta, localModels, globalModels, broadcasts, alerts, ops >>

\* runs of the risk hierarchy calculations
NextHier == \E p \in Procs : StartHier(p) \/ HierCall(p) \/ Finish(p)

SpecHier == Init /\ [][NextHier]_vars

\* the same requests with the clock running
NextTimed == Next \/ Tick

SpecTimed == Init /\ [][NextTimed]_vars

TypeOK ==
    /\ now \in 0..(MaxTicks * TIME_THRESHOLD)
    /\ \A p \in Procs : loc[p].op \in { "idle", "handler", "admin", "script", "trainer", "risk", "hierarchy" }

\* ---------------------------------------------------------------- properties

Handlers(s) == { p \in Procs : loc[p].op = "handler" /\ loc[p].phc = s }

\* positions inside train_federated_model before the LocalModel is stored
TrainingPCs == { "tfm_patients", "tfm_latest", "tfm_create" }

\* positions of handle_patient_creation between its write of
\* training_in_progress = True and its last record_training_completion
LockHeldPCs ==
    TrainingPCs \cup { "rtc_read", "rtc_save", "drift", "drift_previous", "risk",
                       "chk_any", "chk_iter",
                       "agg_collect", "agg_latest", "agg_create", "agg_mark",
                       "fin_read", "fin_save" }

\* positions inside aggregate_models
AggregatePCs == { "agg_collect", "agg_latest", "agg_create", "agg_mark" }

Globals == 1..Len(globalModels)

Automatic(g) == globalModels[g].aggregation_triggered_by = "automatic"

\* C1: at most one training run of a site is in progress at any instant,
\* whatever the interleaving of concurrent patient-arrival events.
C1_AtMostOneTraining ==
    \A s \in Sites : Cardinality({ p \in Handlers(s) : pc[p] \in TrainingPCs }) <= 1

\* C2: a site's training_in_progress is set only while a patient-arrival call
\* that set it is still running; once every such call has returned (with a
\* model, an error result or an exception) the lock is clear.
C2_LockNeverStuck ==
    \A s \in Sites :
        meta[s].lock =>
            \E p \in Handlers(s) : loc[p].setLock /\ pc[p] \in LockHeldPCs

\* a patient-arrival call that took the lock has returned after a failed
\* training and the lock is clear
C2_Witness ==
    \E p \in Procs :
        /\ pc[p] = "done" /\ loc[p].op = "handler" /\ loc[p].setLock
        /\ loc[p].result = "error"
        /\ ~meta[loc[p].phc].lock

\* the same LocalModel document is a contributor of GlobalModels g and h
SharedContributor(g, h) ==
    \E s \in globalModels[g].contributors \cap globalModels[h].contributors :
        globalModels[g].collected[s] = globalModels[h].collected[s]

\* C3: two automatic aggregations can both create a GlobalModel out of the
\* same LocalModel (C3_Witness), and that happens only when the two calls
\* overlap: the later one had started before the earlier one returned.
C3_SharedOnlyByOverlap ==
    \A g, h \in Globals :
        (g < h /\ Automatic(g) /\ Automatic(h) /\ SharedContributor(g, h))
            => globalModels[g].version \in globalModels[h].peers

\* two automatic GlobalModels, each created after a trigger check that saw at
\* least 3 sites, name the same LocalModel
C3_Witness ==
    \E g, h \in Globals :
        /\ g < h /\ Automatic(g) /\ Automatic(h) /\ SharedContributor(g, h)
        /\ Cardinality(globalModels[g].pending) >= MIN_PHCS
        /\ Cardinality(globalModels[h].pending) >= MIN_PHCS

\* C4: the versions of a site's LocalModels are pairwise distinct and each
\* stored LocalModel has a version greater than every one stored before it.
C4_LocalVersionsIncreasing ==
    \A s \in Sites : \A k1, k2 \in Ids(s) :
        k1 < k2 => localModels[s][k1].version < localModels[s][k2].version

\* a site holds two versions and a concurrent training of it was rejected
\* for its duplicate version string
C4_Witness ==
    \E p \in Procs :
        /\ loc[p].tres = "not_unique"
        /\ Len(localModels[loc[p].phc]) >= 2

\* C5: GlobalModel versions are pairwise distinct and each created GlobalModel
\* has a version greater than every one created before it.
C5_GlobalVersionsIncreasing ==
    \A g, h \in Globals : g < h => globalModels[g].version < globalModels[h].version

\* of two overlapping aggregations one created a GlobalModel and the other
\* was rejected for its duplicate version
C5_Witness ==
    /\ Len(globalModels) >= 1
    /\ \E p \in Procs : loc[p].aexc = "not_unique"

\* contributor_versions[s] of GlobalModel g names a LocalModel of site s
NamesExistingModel(g, s) ==
    \E k \in Ids(s) :
        localModels[s][k].version_string = globalModels[g].contributor_versions[s]

\* C6 as stated: every contributor_versions entry names an existing
\* LocalModel that was unaggregated when the aggregation collected it.
C6_CollectedUnaggregated ==
    \A g \in Globals : \A s \in DOMAIN globalModels[g].contributor_versions :
        NamesExistingModel(g, s) /\ s \notin globalModels[g].collectedAggregated

\* C6 amended: every contributor_versions entry names an existing LocalModel
\* of that site, and it was unaggregated when collected if the aggregation
\* is automatic.
C6_AutomaticCollectedUnaggregated ==
    \A g \in Globals : \A s \in DOMAIN globalModels[g].contributor_versions :
        /\ NamesExistingModel(g, s)
        /\ Automatic(g) => s \notin globalModels[g].collectedAggregated

\* an automatic GlobalModel exists, and a manual one that names a model
\* already aggregated when collected
C6_Witness ==
    /\ \E g \in Globals : Automatic(g) /\ globalModels[g].contributors # {}
    /\ \E g \in Globals : ~Automatic(g) /\ globalModels[g].collectedAggregated # {}

\* the trigger check of request p did not pass
CheckFailed(p) == loc[p].areason \in { "insufficient_phcs", "no_models" }

\* C7 as stated: an automatic GlobalModel is created only after a trigger
\* check that saw at least 3 sites with an unaggregated model; a check that
\* saw fewer reports insufficient_phcs and the call aggregates nothing.
C7_FewerReportsInsufficient ==
    /\ \A g \in Globals : Automatic(g) => Cardinality(globalModels[g].pending) >= MIN_PHCS
    /\ \A p \in Procs :
          (loc[p].areason # "-" /\ Cardinality(loc[p].pend) < MIN_PHCS)
              => /\ loc[p].areason = "insufficient_phcs"
                 /\ loc[p].created = 0 /\ pc[p] \notin AggregatePCs

\* C7 amended: as stated, except that the check reports no_models when it
\* finds no unaggregated model at all and insufficient_phcs otherwise.
C7_FewerNeverAggregates ==
    /\ \A g \in Globals : Automatic(g) => Cardinality(globalModels[g].pending) >= MIN_PHCS
    /\ \A p \in Procs :
          (loc[p].areason # "-" /\ Cardinality(loc[p].pend) < MIN_PHCS)
              => /\ CheckFailed(p)
                 /\ loc[p].areason = "no_models" => loc[p].pend = {}
                 /\ loc[p].created = 0 /\ pc[p] \notin AggregatePCs

\* an automatic GlobalModel exists and a later check that saw fewer than 3
\* sites reported insufficient_phcs
C7_Witness ==
    /\ \E g \in Globals : Automatic(g)
    /\ \E p \in Procs : loc[p].areason = "insufficient_phcs" /\ loc[p].pend # {}

\* C8: an aggregate_models call that returned None created no GlobalModel
\* (and so marked no LocalModel and wrote no broadcast record).
C8_NoneLeavesStoreUnchanged ==
    \A p \in Procs : loc[p].ares = "none" => loc[p].created = 0

\* request p takes the step in which aggregate_models returns its result
ReturnsResult(p) == pc[p] = "agg_mark" /\ loc[p].i > Len(PhcRange) /\ pc'[p] # "agg_mark"

\* C9: when aggregate_models returns a result with version v, GlobalModel v
\* exists and every LocalModel it names is aggregated with back-reference v.
C9_ContributorsMarkedAtReturn ==
    [][ \A p \in Procs : ReturnsResult(p) =>
          /\ \E g \in 1..Len(globalModels') : globalModels'[g].version = loc[p].ver
          /\ \A s \in Contributors(loc[p].col) :
                /\ localModels'[s][loc[p].col[s]].aggregated
                /\ localModels'[s][loc[p].col[s]].aggregated_in_version = loc[p].ver
      ]_vars

\* C10: after an aggregation created version v and returned, every site of
\* the site-to-city topology has a broadcast record for v.
C10_BroadcastToEveryKnownSite ==
    \A p \in Procs :
        loc[p].ares = "ok" =>
            \A s \in Sites :
                [ phc_id |-> s, global_model_version |-> loc[p].created ] \in broadcasts

\* request p, a patient-arrival call, leaves position l in this step
Leaves(p, l) == loc[p].op = "handler" /\ pc[p] = l /\ pc'[p] # l

\* C11 as stated: a patient-arrival call that evaluates its trigger or reads
\* the lock while the site's lock is held, and returns, reports
\* training_in_progress.
C11_LockedAlwaysReportsInProgress ==
    [][ \A p \in Procs :
          ( (Leaves(p, "trig_read") \/ Leaves(p, "lock_read"))
            /\ meta[loc[p].phc].lock /\ pc'[p] = "done" )
              => loc'[p].result = "training_in_progress"
      ]_vars

\* C11 amended: a call whose trigger fired and that reads the lock as held
\* returns training_in_progress without training, storing a LocalModel or
\* writing the store; a call whose trigger does not fire while the lock is
\* held returns no_trigger, also without training, and the lock stays set.
C11_LockedCallDoesNotTrain ==
    [][ \A p \in Procs :
          /\ (Leaves(p, "lock_read") /\ meta[loc[p].phc].lock)
                => /\ pc'[p] = "done"
                   /\ loc'[p].result = "training_in_progress"
                   /\ loc'[p].trained = 0 /\ ~loc'[p].setLock
                   /\ store' = store
          /\ (Leaves(p, "trig_read") /\ meta[loc[p].phc].lock /\ pc'[p] = "done")
                => /\ loc'[p].result = "no_trigger"
                   /\ loc'[p].trained = 0
                   /\ store' = store
      ]_vars

\* a call returned training_in_progress while another call of the site is
\* training under the lock
C11_Witness ==
    \E p \in Procs :
        /\ pc[p] = "done" /\ loc[p].result = "training_in_progress"
        /\ loc[p].trained = 0
        /\ meta[loc[p].phc].lock
        /\ \E q \in Handlers(loc[p].phc) : loc[q].setLock /\ pc[q] \in TrainingPCs

\* the trigger condition on the site's stored metadata: the counter has
\* reached the patient threshold or the time threshold has elapsed
Due(s) ==
    /\ meta[s].exists
    /\ \/ meta[s].count >= PATIENT_THRESHOLD
       \/ meta[s].last # None /\ now - meta[s].last >= TIME_THRESHOLD

\* C12: a patient-arrival call evaluates its trigger after its increment,
\* and it starts a training if and only if the site is not TRAINING and the
\* counter is at least 20 or at least 24 hours passed since the last
\* training.
C12_TrainsIffDueAndNotTraining ==
    [][ \A p \in Procs :
          /\ (loc'[p].op = "handler" /\ pc'[p] = "trig_read" /\ pc[p] # "trig_read")
                => pc[p] = "inc_save" /\ meta'[loc'[p].phc].count >= 1
          /\ Leaves(p, "trig_read") => (pc'[p] = "lock_read" <=> Due(loc[p].phc))
          /\ Leaves(p, "lock_read") => (pc'[p] = "lock_save" <=> ~meta[loc[p].phc].lock)
          /\ (Leaves(p, "lock_save") /\ pc'[p] = "tfm_patients") => ~meta[loc[p].phc].lock
      ]_vars

\* C13: when a triggered training succeeds, the completion it records leaves
\* the site's counter at 0 and its last-trained time at the current time;
\* when it fails, the counter and the last-trained time stay as they were
\* and only the lock is written.
C13_ResetOnSuccessOnly ==
    [][ \A p \in Procs :
          LET s == loc[p].phc
          IN  /\ Leaves(p, "rtc_save")
                    => meta'[s].count = 0 /\ meta'[s].last = now
              /\ (Leaves(p, "fin_save") /\ loc[p].tres # "ok")
                    => /\ meta'[s].count = meta[s].count
                       /\ meta'[s].last = meta[s].last
                       /\ \A t \in Sites \ {s} : meta'[t] = meta[t]
      ]_vars

\* the analytics the specification lists after a training
Analytics == { "drift", "risk", "outbreak", "aggregation" }

\* C14: a patient-arrival call that reports model_trained has stored its
\* LocalModel and has invoked all four analytics (drift detection, composite
\* risk scoring, outbreak detection, aggregation check).
C14_AllAnalyticsInvoked ==
    \A p \in Procs :
        (pc[p] = "done" /\ loc[p].result = "model_trained")
            => loc[p].trained # 0 /\ loc[p].ran = Analytics

\* ids of the LocalModels of site s with aggregated = false
Unaggregated(s) == { k \in Ids(s) : ~localModels[s][k].aggregated }

Attempted(p) == loc[p].op = "script" /\ pc[p] = "done"

\* C16 as stated: a training attempt at a site with fewer than 10 patient
\* records returns the insufficient-data error and the site has no
\* LocalModel afterwards.
C16_FewSamplesInsufficientData ==
    \A p \in Procs :
        (Attempted(p) /\ patients[loc[p].phc] < MIN_SAMPLES)
            => /\ loc[p].tres = "insufficient_data"
               /\ loc[p].trained = 0 /\ localModels[loc[p].phc] = << >>

\* C16 amended: such an attempt returns the insufficient-data error when the
\* site has 1 to 9 records and the no-patient-data error when it has none;
\* in both cases no LocalModel is written.
C16_FewSamplesNoModel ==
    \A p \in Procs :
        (Attempted(p) /\ patients[loc[p].phc] < MIN_SAMPLES)
            => /\ loc[p].tres = IF patients[loc[p].phc] = 0
                                THEN "no_patient_data" ELSE "insufficient_data"
               /\ loc[p].trained = 0 /\ localModels[loc[p].phc] = << >>

\* an attempt at a site with 9 records returned the insufficient-data error
C16_Witness ==
    \E p \in Procs :
        /\ Attempted(p) /\ patients[loc[p].phc] = MIN_SAMPLES - 1
        /\ loc[p].tres = "insufficient_data"
        /\ localModels[loc[p].phc] = << >>

\* the arguments a pass the size, shape and NaN/Inf checks
PassesDataChecks(a) == a.n >= MIN_SAMPLES /\ a.n = a.ny /\ ~a.bad

\* C17: a Local Trainer call whose feature list holds the label column
\* disease_label, with X and y passing the size, shape and NaN/Inf checks,
\* fails with the data-leakage error and fits no model.
C17_LabelInFeaturesIsLeakage ==
    \A p \in Procs :
        ( /\ loc[p].op = "trainer" /\ pc[p] = "done"
          /\ PassesDataChecks(loc[p].args)
          /\ "disease_label" \in loc[p].args.features )
            => loc[p].tres = "data_leakage"

\* value is the ratio correct / n to four decimals, in units of 0.0001
IsRatio4(value, correct, n) ==
    /\ 2 * (value * n - 10000 * correct) <= n
    /\ 2 * (10000 * correct - value * n) <= n

\* C18: the accuracy stored on a LocalModel, and the accuracy a successful
\* training returns, is the accuracy on the held-out test part of the split;
\* the accuracy on the training part is kept only in the separate
\* train_accuracy field
C18_StoredAccuracyIsTestMetric ==
    /\ \A s \in Sites : \A k \in Ids(s) :
          LET lm == localModels[s][k]
          IN  lm.split # NoSplit =>
                  /\ IsRatio4(lm.accuracy, lm.split.test_correct, lm.split.n_test)
                  /\ IsRatio4(lm.weights.train_accuracy, lm.split.train_correct,
                              lm.split.n_train)
    /\ \A p \in Procs :
          Attempted(p) /\ loc[p].tres = "ok"
              => loc[p].racc = localModels[loc[p].phc][loc[p].trained].accuracy

\* C18: a training has returned a model whose test accuracy differs from its
\* training accuracy
C18_Witness ==
    \E p \in Procs :
        /\ Attempted(p) /\ loc[p].tres = "ok"
        /\ LET lm == localModels[loc[p].phc][loc[p].trained]
           IN  /\ lm.accuracy # lm.weights.train_accuracy
               /\ loc[p].racc = lm.accuracy

\* the documents a GlobalModel was computed from
Collected(g) ==
    LET col == globalModels[g].collected
    IN  [ s \in Contributors(col) |-> localModels[s][col[s]] ]

\* the contributors' sample counts and accuracies of the worked example
FedAvgExample ==
    [ s \in RegisteredSites |->
        IF s = "PHC_1" THEN << 50, 8000 >>
        ELSE IF s = "PHC_2" THEN << 150, 9000 >> ELSE << 100, 8500 >> ]

IsFedAvgExample(g) ==
    LET c == Collected(g)
    IN  /\ DOMAIN c = RegisteredSites
        /\ \A s \in DOMAIN c : << c[s].sample_count, c[s].accuracy >> = FedAvgExample[s]

\* C19: the accuracy of a GlobalModel is the contributors' accuracy weighted
\* by sample count, sum(accuracy * sample_count) / sum(sample_count), to
\* four decimals; it lies between the smallest and the largest contributor
\* accuracy; sample counts (50, 150, 100) with accuracies (0.80, 0.90, 0.85)
\* give 0.8667
C19_WeightedAverage ==
    \A g \in Globals :
        LET c == Collected(g)
            total == SumOver(DOMAIN c, [ s \in DOMAIN c |-> c[s].sample_count ])
            weighted == SumOver(DOMAIN c,
                                [ s \in DOMAIN c |-> c[s].accuracy * c[s].sample_count ])
            acc == globalModels[g].accuracy
        IN  /\ total > 0
            /\ 2 * (acc * total - weighted) <= total
            /\ 2 * (weighted - acc * total) <= total
            /\ \E s \in DOMAIN c : c[s].accuracy <= acc
            /\ \E s \in DOMAIN c : acc <= c[s].accuracy
            /\ IsFedAvgExample(g) => acc = 8667

\* C19: a GlobalModel computed from the three contributors of the example
C19_Witness ==
    \E g \in Globals : IsFedAvgExample(g) /\ globalModels[g].accuracy = 8667

\* ids of the site's documents with exactly k documents of a higher version
Ranked(s, k) ==
    { i \in Ids(s) :
        Cardinality({ j \in Ids(s) :
            localModels[s][j].version > localModels[s][i].version }) = k }

\* the relative drop from accuracy a to accuracy b exceeds one part in `parts`
RelativeDropAbove(a, b, parts) == parts * (a - b) > a

\* exactly one MODEL_DRIFT alert of site s with severity sev is added
EmitsDriftAlert(s, sev) ==
    /\ BagCardinality(alerts') = BagCardinality(alerts) + 1
    /\ \E a \in BagToSet(alerts') :
          /\ a.alert_type = "MODEL_DRIFT" /\ a.phc_id = s /\ a.severity = sev
          /\ CopiesIn(a, alerts') = CopiesIn(a, alerts) + 1

RiskReturns(p) == pc[p] = "crs" /\ pc'[p] # "crs"

\* exactly one COMPOSITE_RISK alert of site s carrying breakdown d is added
EmitsRiskAlert(s, d) ==
    /\ BagCardinality(alerts') = BagCardinality(alerts) + 1
    /\ \E a \in BagToSet(alerts') :
          /\ a.alert_type = "COMPOSITE_RISK" /\ a.phc_id = s /\ a.breakdown = d
          /\ CopiesIn(a, alerts') = CopiesIn(a, alerts) + 1

\* C21 as stated: every call of the Composite Risk Scorer appends exactly one
\* composite-risk Alert carrying the breakdown, whatever the site's data
C21_EveryCallAlerts ==
    [][ \A p \in Procs : RiskReturns(p) => EmitsRiskAlert(loc[p].phc, loc[p].data) ]_vars

\* C21: a call for a site with at least one patient record appends exactly
\* one composite-risk Alert carrying the breakdown, whatever the severity; a
\* call for a site without patient records returns a zero LOW score and
\* appends nothing
C21_CallWithPatientsAlerts ==
    [][ \A p \in Procs : RiskReturns(p) =>
          IF loc[p].data.n > 0
          THEN /\ EmitsRiskAlert(loc[p].phc, loc[p].data)
               /\ loc'[p].rres.severity \in { "LOW", "MEDIUM", "HIGH" }
          ELSE /\ alerts' = alerts
               /\ loc'[p].rres.risk_score = 0 /\ loc'[p].rres.severity = "LOW" ]_vars

\* C21: a call scored a site LOW and its alert is in the collection
C21_Witness ==
    \E p \in Procs :
        /\ pc[p] = "done" /\ loc[p].op = "risk"
        /\ loc[p].data.n > 0 /\ loc[p].rres.severity = "LOW"
        /\ \E a \in BagToSet(alerts) :
              /\ a.alert_type = "COMPOSITE_RISK" /\ a.phc_id = loc[p].phc
              /\ a.severity = "LOW" /\ a.breakdown = loc[p].data

\* C22: the composite score of a call is 0.4 x fever percentage + 0.3 x
\* keyword-match percentage + 0.3 x abnormal-WBC percentage over the site's
\* records, lies in [0, 100], is LOW below 30, MEDIUM from 30 to below 60
\* and HIGH from 60, whether or not the site has a LocalModel; 10 patients
\* with 4 fevers, 3 keyword matches and 2 abnormal WBC give 31.0 and MEDIUM
C22_ScoreFormula ==
    \A p \in Procs :
        pc[p] = "done" /\ loc[p].op = "risk" /\ loc[p].data.n > 0 =>
            LET d == loc[p].data
                r == loc[p].rres
                sum == 40 * d.fever + 30 * d.keyword + 30 * d.wbc
            IN  /\ 2 * (r.risk_score * d.n - 100 * sum) <= d.n
                /\ 2 * (100 * sum - r.risk_score * d.n) <= d.n
                /\ r.risk_score >= 0 /\ r.risk_score <= 10000
                /\ r.severity = IF sum < 30 * d.n THEN "LOW"
                                ELSE IF sum < 60 * d.n THEN "MEDIUM" ELSE "HIGH"
                /\ d = [ n |-> 10, fever |-> 4, keyword |-> 3, wbc |-> 2 ]
                      => r.risk_score = 3100 /\ r.severity = "MEDIUM"



\* ------------------------------------------------------------------ C23

\* a risk hierarchy calculation returns in this step
HierReturns(p) == pc[p] = "hier" /\ pc'[p] # "hier"

\* the patients the window holds for the sites of the scope calculated
ScopePatients(p) ==
    SumSeq([ i \in DOMAIN SiteOrder |->
               IF SiteOrder[i] \in SitesOfScope(loc[p].scope)
               THEN loc[p].cohort[SiteOrder[i]].n ELSE 0 ])

\* C23: at each of the three levels a calculation returns a score result and
\* never an error, also when a constituent site or city has no patients in
\* the window, and a level with no patients at all returns a zero score
\* annotated as insufficient data
C23_ZeroPatientsNeverFail ==
    [][ \A p \in Procs : HierReturns(p) =>
          LET r == loc'[p].hres
          IN  /\ r.error = "-"
              /\ ScopePatients(p) = 0 =>
                    /\ r.score = 0
                    /\ r.note \in { "Insufficient data", "Insufficient patient data" } ]_vars

\* ------------------------------------------------------------------ C24

\* C24: the risk of a city is the average of its sites' risks weighted by
\* patient count, the risk of the district is the average of the cities'
\* risks weighted by the cities' patient counts, and each is at most 1.0;
\* two sites with 30 and 70 patients and risks 0.2 and 0.6 give the city 0.48
C24_WeightedAverages ==
    [][ \A p \in Procs : (HierReturns(p) /\ ScopePatients(p) > 0) =>
          LET r == loc'[p].hres
              scope == loc[p].scope
              cohort == loc[p].cohort
              SitesOf(city) == { s \in Sites : PHC_CITY_MAPPING[s] = city }
              \* 0.4 of the high-severity share and 0.6 of the disease share
              SiteRisk(c) ==
                  IF c.n = 0 THEN 0
                  ELSE AtMostOne(RoundDiv(4000 * c.high + 6000 * c.disease, c.n))
              CityPatients(city) == SumOver(SitesOf(city), [ s \in Sites |-> cohort[s].n ])
              CityAverage(city) ==
                  IF CityPatients(city) = 0 THEN 0
                  ELSE RoundDiv(SumOver(SitesOf(city),
                                        [ s \in Sites |-> SiteRisk(cohort[s]) * cohort[s].n ]),
                                CityPatients(city))
              DistrictAverage ==
                  RoundDiv(SumOver(Cities, [ c \in Cities |->
                                              CityAverage(c) * CityPatients(c) ]),
                           SumOver(Cities, [ c \in Cities |-> CityPatients(c) ]))
              IsCityExample ==
                  /\ scope[2] = "Pollachi"
                  /\ cohort["PHC_1"].n = 30 /\ SiteRisk(cohort["PHC_1"]) = 2000
                  /\ cohort["PHC_2"].n = 70 /\ SiteRisk(cohort["PHC_2"]) = 6000
          IN  /\ r.score <= 10000
              /\ scope[1] = "city" =>
                    /\ r.error = "-" /\ r.score = CityAverage(scope[2])
                    /\ IsCityExample => r.score = 4800
              /\ scope[1] = "district" =>
                    r.error = "-" /\ r.score = DistrictAverage ]_vars

\* ------------------------------------------------------------------ C25

\* C25: after every calculation the collection holds at most one document
\* per scope and period; a calculation over the patients the document of its
\* scope was computed from leaves that document as it was and adds none
C25_OneRowPerScope ==
    [][ \A p \in Procs : HierReturns(p) =>
          LET RowScope(row) ==
                  << row.phc_id, row.city, row.district_id, row.evaluation_period >>
          IN  /\ \A i, j \in DOMAIN riskScores' :
                    RowScope(riskScores'[i]) = RowScope(riskScores'[j]) => i = j
              /\ Unchanged(riskScores, loc[p].scope, loc[p].cohort) =>
                    /\ Len(riskScores') = Len(riskScores)
                    /\ \A i \in DOMAIN riskScores :
                          RowIsOf(riskScores[i], loc[p].scope)
                              => riskScores'[i] = riskScores[i] ]_vars

\* a calculation found the document of its scope, computed from the same
\* patients, and returned a score
C25_Witness ==
    \E p \in Procs :
        /\ pc[p] = "done" /\ loc[p].op = "hierarchy"
        /\ loc[p].same /\ loc[p].hres.total > 0
        /\ \E i \in DOMAIN riskScores : RowIsOf(riskScores[i], loc[p].scope)

\* ------------------------------------------------------------------ C26

\* C26: in a triggered training the drift and risk analytics run before the
\* completion is recorded, so the site's training_in_progress is still true
\* while they run, and the aggregation check runs only after the release
C26_AnalyticsBeforeRelease ==
    \A p \in Procs :
        LET Triggered(pcs) == loc[p].op = "handler" /\ loc[p].setLock /\ pc[p] \in pcs
        IN  /\ Triggered({ "drift", "drift_previous", "risk" }) =>
                  loc[p].trained # 0 /\ meta[loc[p].phc].lock
            /\ Triggered({ "chk_any" }) =>
                  { "drift", "risk" } \subseteq loc[p].ran /\ ~meta[loc[p].phc].lock

\* ------------------------------------------------------------------ C27

\* C27: while the training of a patient-arrival call that set the lock of a
\* site is running, no step of any operation clears the site's
\* training_in_progress or resets its counter, and every training of a site,
\* whoever started it, runs with the site's lock held
C27_OnlyOwnerReleases ==
    [][ \A s \in Sites :
          LET OwnerTraining ==
                  \E q \in Handlers(s) : loc[q].setLock /\ pc[q] \in TrainingPCs
              Releases ==
                  \/ meta[s].lock /\ ~meta'[s].lock
                  \/ meta'[s].count < meta[s].count
          IN  /\ Releases => ~OwnerTraining
              /\ \A p \in Procs :
                    (pc[p] \in TrainingPCs /\ loc[p].phc = s) => meta[s].lock ]_vars

\* ------------------------------------------------------------------ C28

\* C28: of two GlobalModels created by automatic aggregation, the later one
\* holds of no site a LocalModel version older than the one the earlier
\* one consumed of that site
C28_NeverOlderContribution ==
    LET ContributedVersion(g, s) == localModels[s][globalModels[g].collected[s]].version
    IN  \A g, h \in Globals :
            (g < h /\ Automatic(g) /\ Automatic(h)) =>
                \A s \in globalModels[g].contributors \cap globalModels[h].contributors :
                    ContributedVersion(h, s) >= ContributedVersion(g, s)

\* ------------------------------------------------------------------ C29

\* C29: every GlobalModel created by automatic aggregation has at least
\* MIN_PHCS contributing sites, a LocalModel of every site the trigger check
\* counted among them
C29_AutomaticHasThreeContributors ==
    \A g \in Globals :
        Automatic(g) =>
            /\ Cardinality(globalModels[g].contributors) >= MIN_PHCS
            /\ globalModels[g].pending \subseteq globalModels[g].contributors

\* ------------------------------------------------------------------ C30

====
